---- MODULE Spec2Model ----
(***************************************************************************)
(* A model of pystyle: the crawler that clones GitHub projects found on    *)
(* PyPI (pystyle_crawl.py) and the analysers that check a commit out,      *)
(* run the style extractors and persist the records (update.py,            *)
(* pystyle_update.py).                                                     *)
(*                                                                         *)
(* git is an external command: each invocation either succeeds or exits    *)
(* non-zero (subprocess.CalledProcessError), chosen nondeterministically.  *)
(* A failed `git checkout` leaves HEAD where it was.  The history of a     *)
(* clone is linear: commit c has the ancestors 1..c.                       *)
(***************************************************************************)
EXTENDS Integers, Sequences, FiniteSets, TLC

VARIABLES
    head,       \* head[c]: the commit HEAD of clone c points at
    task,       \* the scoped-checkout tasks (one per worker job)
    mode,       \* which entry point of update.py runs the batch
    only,       \* the --only filter of the run
    csv,        \* the stats CSV written by the batch
    batch,      \* state of the batch run
    crawler,    \* which pystyle_crawl.py runs
    fs,         \* the directories under the git store
    call,       \* the running call of git_clone_or_update
    clonePaths, \* every clone_path a call was made with
    stats,      \* the header of the stats CSV read by --update
    styleJson,  \* styleJson[p]: the file <json_store>/<org>/<project>/style.json
    run,        \* the running infer_style loop of pystyle_update.py
    last,       \* what the last iteration of that loop read and computed
    arg,        \* the argument of the last call of a function taken alone
    ret,        \* what that call returned or raised
    git         \* branch attachment of the clones and the last pull

scopeVars == <<head, task>>
batchVars == <<mode, only, csv, batch, stats>>
crawlVars == <<crawler, fs, call, clonePaths>>
mergeVars == <<styleJson, run, last>>
funVars == <<arg, ret>>
gitVars == <<git>>
vars == <<head, task, mode, only, csv, batch, stats, crawler, fs, call,
          clonePaths, styleJson, run, last, arg, ret, git>>

(***************************************************************************)
(* Bounds of the model.                                                    *)
(***************************************************************************)
MaxCommit == 2      \* commits of a clone's history: 1..MaxCommit
MaxClones == 2      \* clone directories in the git store
MaxScopes == 2      \* with-statements entered on clone 1
MaxRows == 2        \* rows of the stats CSV read by --update

Commits == 1..MaxCommit
Clones == 1..MaxClones
None == 0           \* Python's None for a commit-valued field

\* A clone of the store sits at the tip of its history.
InitHead == [c \in Clones |-> MaxCommit]

\* The stats CSV before anything opened it for writing.
NotWritten == [written |-> FALSE, header |-> {}, rows |-> <<>>, exc |-> "none"]

\* No function is being looked at on its own.
NoFun == arg = <<>> /\ ret = <<>>

\* Branches are not looked at.
NoGit == git = <<>>

(***************************************************************************)
(* Strings that are searched or cut are tuples of characters.              *)
(***************************************************************************)
IsSubstring(needle, hay) ==
    \E i \in 0..(Len(hay) - Len(needle)) :
        \A j \in 1..Len(needle) : hay[i + j] = needle[j]

NoFilter == <<"None">>   \* only=None: no --only option given

(***************************************************************************)
(* update.py: the extractors of infer_style_of_repo, in dict order.        *)
(***************************************************************************)
TypicalFiles ==
    { "file:.gitignore", "file:AUTHORS.md", "file:AUTHORS.rst",
      "file:CHANGELOG.md", "file:CHANGELOG.rst", "file:CONTRIBUTING.md",
      "file:CONTRIBUTING.rst", "file:LICENSE", "file:Pipfile",
      "file:Pipfile.lock", "file:pyproject.toml", "file:LICENSE.txt",
      "file:.noserc", "file:nose.cfg", "file:Makefile", "file:MANIFEST.in",
      "file:pytest.ini", "file:README", "file:README.txt", "file:README.md",
      "file:README.rst", "file:requirements.txt",
      "file:requirements_dev.txt", "file:setup.cfg", "file:setup.py",
      "file:test-requirements.txt", "file:tox.ini" }

TypicalDirs ==
    { "dir:doc/", "dir:docs/", "dir:examples/", "dir:src/", "dir:test/",
      "dir:tests/" }

\* name: the key of the methods dict; keys: the keys the extractor always
\* returns; raises: whether an exception can escape the extractor
\* (has_typical_files/has_typical_dirs only call is_file()/is_dir();
\* count_shebangs and dunder_future catch every OSError and decode error;
\* infer_license catches only FileNotFoundError and UnicodeDecodeError;
\* detect_test_engine reads with read_text() uncaught; infer_requirements
\* catches only RequirementsNotFound).
Methods ==
    << [name |-> <<"h","a","s","_","f","i","l","e">>,
        keys |-> TypicalFiles, raises |-> FALSE],
       [name |-> <<"h","a","s","_","d","i","r">>,
        keys |-> TypicalDirs, raises |-> FALSE],
       [name |-> <<"l","i","c","e","n","s","e">>,
        keys |-> {"license"}, raises |-> TRUE],
       [name |-> <<"d","e","t","e","c","t","_","t","e","s","t","_","e","n","g","i","n","e">>,
        keys |-> {"test_engine"}, raises |-> TRUE],
       [name |-> <<"s","h","e","b","a","n","g">>,
        keys |-> {"shebangs_pct"}, raises |-> FALSE],
       [name |-> <<"d","u","n","d","e","r","_","f","u","t","u","r","e">>,
        keys |-> {"dunder_future_pct"}, raises |-> FALSE],
       [name |-> <<"r","e","q","u","i","r","e","m","e","n","t","s">>,
        keys |-> {"requirements"}, raises |-> TRUE] >>

\* The keys extractor i returns on a tree checked out at commit `tree`.
\* count_shebangs adds one key "shebang:<version>" per interpreter version
\* found in a first line: the trees of the model have a python3 shebang from
\* the second commit on.
Keys(i, tree) ==
    Methods[i].keys \cup
    IF Methods[i].name = <<"s","h","e","b","a","n","g">> /\ tree >= 2
    THEN {"shebang:python3"} ELSE {}

\* `only is None or only in method_name`
Selected(o, i) == o = NoFilter \/ IsSubstring(o, Methods[i].name)

SelectedKeys(o) ==
    UNION { Methods[i].keys : i \in { j \in DOMAIN Methods : Selected(o, j) } }

\* The extractors that can be the first to raise under filter o; 0: none does.
FailPoints(o) ==
    {0} \cup { i \in DOMAIN Methods : Selected(o, i) /\ Methods[i].raises }

\* The extractors infer_style_of_repo has run to completion when extractor
\* failAt raised (failAt = 0: none raised).  The loop is inside the try:
\* the first exception ends it.
RanBeforeFailure(o, failAt) ==
    { i \in DOMAIN Methods :
        Selected(o, i) /\ (failAt = 0 \/ i < failAt) }

\* infer_style_of_repo(path, only) on a tree checked out at commit `tree`:
\* every extractor is a function of the tree, so its values are tagged with
\* the commit.  The except clause logs and falls through to `return result`.
infer_style_of_repo(o, tree, failAt) ==
    LET ks == UNION { Keys(i, tree) : i \in RanBeforeFailure(o, failAt) }
    IN  [k \in ks |-> <<"run", tree>>]

\* src/pystyle/pystyle_update.py: the same dict without detect_test_engine,
\* and the loop is not inside a try: an exception of an extractor leaves
\* infer_style_of_repo, no record is returned.
PackagedMethods ==
    { i \in DOMAIN Methods :
        Methods[i].name #
          <<"d","e","t","e","c","t","_","t","e","s","t","_","e","n","g","i","n","e">> }

PackagedFailPoints(o) == FailPoints(o) \cap (PackagedMethods \cup {0})

PackagedStyleOfRepo(o, tree) ==
    LET ks == UNION { Keys(i, tree) :
                        i \in { j \in PackagedMethods : Selected(o, j) } }
    IN  [k \in ks |-> <<"run", tree>>]

\* A merge in which the keys already present keep their value.
DictSetDefault(d, e) ==
    [k \in (DOMAIN d) \cup (DOMAIN e) |-> IF k \in DOMAIN d THEN d[k] ELSE e[k]]

\* Python's dict.update: d[k] = e[k] for every key of e, the rest kept.
DictUpdate(d, e) ==
    [k \in (DOMAIN d) \cup (DOMAIN e) |-> IF k \in DOMAIN e THEN e[k] ELSE d[k]]

(***************************************************************************)
(* pystyle_crawl.py: where a clone goes and how it is fetched.             *)
(* A URL is the token "https://github.com" followed by the characters of   *)
(* its path; a file-system path is a tuple of characters.                  *)
(***************************************************************************)
MaxSlashes == 1     \* trailing slashes of a URL given to the crawler

Origin == "https://github.com"
Owners == { <<"o">> }
Projects == { <<"p">>, <<"q">> }
GitStores == { <<"s">>, <<"s", "/">> }    \* the git_store argument

RECURSIVE Slashes(_)
Slashes(n) == IF n = 0 THEN <<>> ELSE <<"/">> \o Slashes(n - 1)

\* https://github.com/<owner>/<project> with 0..MaxSlashes trailing slashes
GithubUrl(owner, project, n) ==
    <<Origin>> \o <<"/">> \o owner \o <<"/">> \o project \o Slashes(n)

GithubUrls ==
    { GithubUrl(o, p, n) : o \in Owners, p \in Projects, n \in 0..MaxSlashes }

\* str.rstrip('/')
RECURSIVE RStripSlash(_)
RStripSlash(str) ==
    IF str # <<>> /\ str[Len(str)] = "/"
    THEN RStripSlash(SubSeq(str, 1, Len(str) - 1))
    ELSE str

\* urlparse(url).path: what follows scheme and host
UrlPath(url) == Tail(url)

\* str[1:]
From1(str) == IF str = <<>> THEN <<>> ELSE Tail(str)

\* os.path.join(a, b)
OsPathJoin(a, b) ==
    IF b # <<>> /\ b[1] = "/" THEN b
    ELSE IF a = <<>> \/ a[Len(a)] = "/" THEN a \o b
    ELSE a \o <<"/">> \o b

\* The directory a path names: its non-empty segments.
RECURSIVE Segments(_)
Segments(str) ==
    IF str = <<>> THEN <<>>
    ELSE IF str[1] = "/" THEN Segments(Tail(str))
    ELSE LET n == CHOOSE i \in 1..Len(str) :
                    /\ \A j \in 1..i : str[j] # "/"
                    /\ (i = Len(str) \/ str[i + 1] = "/")
         IN  <<SubSeq(str, 1, n)>> \o Segments(SubSeq(str, n + 1, Len(str)))

Crawlers == {"pystyle/pystyle_crawl.py", "src/pystyle/pystyle_crawl.py"}

\* The entry modes of main; --reclone exists in src/pystyle only.
Entries(c) ==
    IF c = "pystyle/pystyle_crawl.py"
    THEN {"repository", "pypi_project", "feed"}
    ELSE {"repository", "pypi_project", "reclone", "feed"}

\* pystyle/pystyle_crawl.py, crawl_pypi_project: the URL is joined as found.
CrawlPypiProjectPath(store, url) == OsPathJoin(store, From1(UrlPath(url)))

\* src/pystyle/pystyle_crawl.py, clone_repository(url, clones_path=store):
\* the URL is stripped of its trailing slashes first.
CloneRepositoryPath(store, url) ==
    OsPathJoin(store, From1(UrlPath(RStripSlash(url))))

\* The clone_path git_clone_or_update is called with, per program and entry
\* mode of main.  pystyle/pystyle_crawl.py --repository passes git_store
\* itself as clone_path.
ClonePath(c, entry, store, url) ==
    IF c = "pystyle/pystyle_crawl.py"
    THEN IF entry = "repository" THEN store
         ELSE CrawlPypiProjectPath(store, url)
    ELSE CloneRepositoryPath(store, url)

\* clone_url = github_project_url.rstrip('/') + '.git'
CloneUrl(url) == RStripSlash(url) \o <<".git">>

\* reclone builds its URLs as f"https://github.com/{org.stem}/{project.stem}":
\* they never end with a slash.
EntryUrls(entry) ==
    IF entry = "reclone"
    THEN { u \in GithubUrls : u[Len(u)] # "/" }
    ELSE GithubUrls

(***************************************************************************)
(* git_clone_or_update, step by step, on the directories of the store.     *)
(***************************************************************************)
Dirs ==
    { Segments(CloneRepositoryPath(st, u)) : st \in GitStores, u \in GithubUrls }
    \cup { <<o2[1], o2[2]>> :
             o2 \in { Segments(CloneRepositoryPath(st, u)) :
                        st \in GitStores, u \in GithubUrls } }
    \cup { Segments(st) : st \in GitStores }

IsPrefix(a, b) == Len(a) <= Len(b) /\ SubSeq(b, 1, Len(a)) = a

\* os.path.isdir
IsDir(d) == fs[d] # "absent"

\* shutil.rmtree(path): the directory and everything below it
Rmtree(f, d) == [x \in DOMAIN f |-> IF IsPrefix(d, x) THEN "absent" ELSE f[x]]

\* os.makedirs(path): the directory and its missing parents
Makedirs(f, d) ==
    [x \in DOMAIN f |-> IF IsPrefix(x, d) /\ f[x] = "absent" THEN "dir" ELSE f[x]]

NoCall ==
    [pc |-> "idle", url |-> <<>>, store |-> <<>>, entry |-> "none",
     path |-> <<>>, cloneUrl |-> <<>>, existed |-> FALSE, before |-> "absent",
     ops |-> <<>>, exc |-> "none"]

NoCrawl ==
    /\ crawler = "none"
    /\ fs = [d \in Dirs |-> "absent"]
    /\ call = NoCall
    /\ clonePaths = {}

Log(op) == call' = [call EXCEPT !.ops = Append(@, op[1]), !.pc = op[2]]

\* A failed pull that goes straight on to os.makedirs.
AfterPullFailureKeepCopy == "makedirs"

\* After a failed pull: shutil.rmtree(clone_path), then on to os.makedirs.
AfterPullFailure == "rmtree"

\* main calls git_clone_or_update(clone_url, clone_path); the call starts
\* with os.path.isdir(clone_path).
StartCall(entry, store, url) ==
    /\ call.pc \in {"idle", "returned", "raised"}
    /\ entry \in Entries(crawler)
    /\ LET path == ClonePath(crawler, entry, store, url)
           d == Segments(path)
       IN  /\ call' = [pc |-> IF IsDir(d) THEN "pull" ELSE "makedirs",
                       url |-> url, store |-> store, entry |-> entry,
                       path |-> path, cloneUrl |-> CloneUrl(url),
                       existed |-> IsDir(d), before |-> fs[d],
                       ops |-> <<>>, exc |-> "none"]
           /\ clonePaths' = clonePaths \cup {d}
    /\ UNCHANGED <<crawler, fs>>

\* git -C clone_path pull --ff-only; it cannot succeed in a directory that
\* is not a clone.  A success returns at once.
Pull ==
    /\ call.pc = "pull"
    /\ \E ok \in BOOLEAN :
          IF ok /\ fs[Segments(call.path)] = "clone"
          THEN Log(<<"pull_ok", "returned">>)
          ELSE Log(<<"pull_failed", AfterPullFailure>>)
    /\ UNCHANGED <<crawler, fs, clonePaths>>

\* except CalledProcessError: shutil.rmtree(clone_path)
RmtreeOldCopy ==
    /\ call.pc = "rmtree"
    /\ fs' = Rmtree(fs, Segments(call.path))
    /\ Log(<<"rmtree", "makedirs">>)
    /\ UNCHANGED <<crawler, clonePaths>>

\* os.makedirs(clone_path) raises FileExistsError on an existing path
MakeDirs ==
    /\ call.pc = "makedirs"
    /\ IF IsDir(Segments(call.path))
       THEN /\ call' = [call EXCEPT !.ops = Append(@, "makedirs_failed"),
                                    !.pc = "raised",
                                    !.exc = "FileExistsError"]
            /\ fs' = fs
       ELSE /\ fs' = Makedirs(fs, Segments(call.path))
            /\ Log(<<"makedirs", "clone">>)
    /\ UNCHANGED <<crawler, clonePaths>>

\* What is left at clone_path when `git clone` exits non-zero, before the
\* except clause runs: the directory os.makedirs created, possibly with
\* part of a clone in it.
FailedCloneLeaves == "dir"

\* git clone clone_url clone_path
Clone ==
    /\ call.pc = "clone"
    /\ \E ok \in BOOLEAN :
          IF ok
          THEN /\ fs' = [fs EXCEPT ![Segments(call.path)] = "clone"]
               /\ Log(<<"clone_ok", "returned">>)
          ELSE /\ fs' = [fs EXCEPT ![Segments(call.path)] = FailedCloneLeaves]
               /\ Log(<<"clone_failed", "cleanup">>)
    /\ UNCHANGED <<crawler, clonePaths>>

\* except CalledProcessError: shutil.rmtree(clone_path, ignore_errors=True)
CleanupFailedClone(f, d) == Rmtree(f, d)

RmtreeFailedClone ==
    /\ call.pc = "cleanup"
    /\ fs' = CleanupFailedClone(fs, Segments(call.path))
    /\ Log(<<"rmtree_ignore_errors", "returned">>)
    /\ UNCHANGED <<crawler, clonePaths>>

(***************************************************************************)
(* pystyle_update.py: infer_style keeps one style.json per project,        *)
(* read, merged with the new record and written back.                      *)
(* A file is what was written to it: a sequence of chunks of text, each a  *)
(* JSON document or garbage.  json.load accepts exactly one document.      *)
(***************************************************************************)
MaxVersion == 2     \* states of a project's working tree over the runs

\* glob.glob(git_store + '/*/*/'): the projects of the git store
JsonProjects == Projects
Versions == 1..MaxVersion

\* The methods dict of infer_style_of_repo in pystyle_update.py, with the
\* Python type of what each extractor returns.
JsonMethods ==
    << [name |-> <<"h","a","s","_","f","i","l","e">>, py |-> "dict"],
       [name |-> <<"h","a","s","_","d","i","r">>, py |-> "dict"],
       [name |-> <<"l","i","c","e","n","s","e">>, py |-> "str"],
       [name |-> <<"l","i","n","e","s","_","o","f","_","c","o","d","e">>,
        py |-> "dict"],
       [name |-> <<"p","e","p","8","_","i","n","f","r","i","n","g","e","m","e","n","t">>,
        py |-> "int"],
       [name |-> <<"s","h","e","b","a","n","g">>, py |-> "dict"],
       [name |-> <<"r","e","q","u","i","r","e","m","e","n","t","s">>,
        py |-> "list"] >>

JsonFilters == { NoFilter, <<"h","a","s">> }

\* What extractor i returns on a tree in state v.  infer_license returns
\* None when no license is identified (here: in the first state).
ExtractorValue(i, v) ==
    IF JsonMethods[i].name = <<"l","i","c","e","n","s","e">> /\ v = 1
    THEN [py |-> "NoneType", v |-> v]
    ELSE [py |-> JsonMethods[i].py, v |-> v]

\* {key: method(path) for key, method in methods.items()
\*  if only is None or only in key}, for every filter and tree
JsonStyles ==
    [o \in JsonFilters |->
      [v \in Versions |->
        LET sel == { i \in DOMAIN JsonMethods :
                       o = NoFilter \/ IsSubstring(o, JsonMethods[i].name) }
        IN  [k \in { JsonMethods[i].name : i \in sel } |->
               ExtractorValue(CHOOSE i \in sel : JsonMethods[i].name = k, v)]]]

JsonStyleOfRepo(o, v) == JsonStyles[o][v]

\* The characters of the keys in code-point order.
CharOrder ==
    << "8", "_", "a", "b", "c", "d", "e", "f", "g", "h", "i", "l", "m", "n",
       "o", "p", "q", "r", "s", "t", "u" >>

Rank(c) == CHOOSE i \in DOMAIN CharOrder : CharOrder[i] = c

RECURSIVE StrLess(_, _)
StrLess(a, b) ==
    IF a = <<>> THEN b # <<>>
    ELSE IF b = <<>> THEN FALSE
    ELSE IF a[1] = b[1] THEN StrLess(Tail(a), Tail(b))
    ELSE Rank(a[1]) < Rank(b[1])

\* sort_keys=True
RECURSIVE SortKeys(_)
SortKeys(S) ==
    IF S = {} THEN <<>>
    ELSE LET m == CHOOSE x \in S : \A y \in S \ {x} : StrLess(x, y)
         IN  <<m>> \o SortKeys(S \ {m})

\* The keys a style can have, sorted.
KeyOrder == SortKeys({ JsonMethods[i].name : i \in DOMAIN JsonMethods })

\* json.dump of a value of a style: Python type to JSON type
JsonEncode(x) ==
    [js |-> CASE x.py = "dict" -> "object"
              [] x.py = "list" -> "array"
              [] x.py = "str" -> "string"
              [] x.py = "int" -> "number"
              [] x.py = "NoneType" -> "null",
     v |-> x.v]

\* json.load of a value: JSON type to Python type
JsonDecode(j) ==
    [py |-> CASE j.js = "object" -> "dict"
              [] j.js = "array" -> "list"
              [] j.js = "string" -> "str"
              [] j.js = "number" -> "int"
              [] j.js = "null" -> "NoneType",
     v |-> j.v]

\* json.dump(style, f, indent=4, sort_keys=True): one document
JsonDump(style) ==
    LET InStyle(k) == k \in DOMAIN style
        ks == SelectSeq(KeyOrder, InStyle)
    IN  [kind |-> "object",
         items |-> [i \in DOMAIN ks |-> <<ks[i], JsonEncode(style[ks[i]])>>]]

Garbage == [kind |-> "garbage", items |-> <<>>]
ArrayDocument == [kind |-> "array", items |-> <<>>]

Absent == [exists |-> FALSE, chunks |-> <<>>]
FileOf(chunks) == [exists |-> TRUE, chunks |-> chunks]

\* json.load(f): JSONDecodeError unless the file is one JSON document; an
\* object becomes a dict, an array a list.
JsonLoad(f) ==
    IF Len(f.chunks) # 1 \/ f.chunks[1].kind = "garbage"
    THEN [exc |-> "JSONDecodeError", py |-> "none", dict |-> <<>>]
    ELSE IF f.chunks[1].kind = "array"
    THEN [exc |-> "none", py |-> "list", dict |-> <<>>]
    ELSE LET it == f.chunks[1].items
         IN  [exc |-> "none", py |-> "dict",
              dict |-> [k \in { it[i][1] : i \in DOMAIN it } |->
                          JsonDecode(it[CHOOSE i \in DOMAIN it :
                                                it[i][1] = k][2])]]

JsonRead(f) == JsonLoad(f).dict

\* open(style_json_path, 'a'): what is written follows what was there.
OpenAppend(f, document) == FileOf(f.chunks \o <<document>>)

\* open(style_json_path, 'w'): the file holds what is written, nothing else.
OpenWrite(f, document) == FileOf(<<document>>)

\* Without the except clause around json.load.
CaughtByNothing == {}

\* except json.decoder.JSONDecodeError: print("Malformed json in", ...)
CaughtByInferStyle == {"JSONDecodeError"}

\* A loop without the `continue`.
SkipsNoProject(f, o) == FALSE

\* if not os.path.exists(style_json_path) and only is not None: continue
SkipsProject(f, o) == ~f.exists /\ o # NoFilter

\* One iteration of the loop of infer_style on a project whose style.json
\* is f, with filter o and the record `style` computed by
\* infer_style_of_repo (raised: an extractor raised instead; nothing in
\* infer_style catches that, nor the AttributeError of calling update on a
\* list).
MergeStyle(f, o, style, raised) ==
    LET old == JsonLoad(f)
    IN  IF SkipsProject(f, o)
        THEN [file |-> f, exc |-> "none", did |-> "skipped"]
        ELSE IF raised
        THEN [file |-> f, exc |-> "ExtractorError", did |-> "raised"]
        ELSE IF ~f.exists
        THEN [file |-> OpenWrite(f, JsonDump(style)), exc |-> "none",
              did |-> "created"]
        ELSE IF old.exc \in CaughtByInferStyle
        THEN [file |-> OpenWrite(f, JsonDump(style)), exc |-> "none",
              did |-> "reported_malformed"]
        ELSE IF old.exc # "none"
        THEN [file |-> f, exc |-> old.exc, did |-> "raised"]
        ELSE IF old.py # "dict"
        THEN [file |-> f, exc |-> "AttributeError", did |-> "raised"]
        ELSE [file |-> OpenWrite(f, JsonDump(DictUpdate(old.dict, style))),
              exc |-> "none", did |-> "merged"]

NoLast ==
    [p |-> <<>>, only |-> NoFilter, v |-> 0, before |-> Absent, did |-> "nothing",
     again |-> FALSE]

NoMerge ==
    /\ styleJson = <<>>
    /\ run = [only |-> NoFilter, exc |-> "none"]
    /\ last = NoLast

\* infer_style is started with a filter (a new run of the program).
StartRun(o) ==
    /\ run' = [only |-> o, exc |-> "none"]
    /\ run' # run
    /\ UNCHANGED <<styleJson, last>>

\* The loop reaches project p, whose tree is in state v.  An exception ends
\* the run; otherwise the loop goes on to the next project.
Iterate(p, v, raised) ==
    /\ run.exc = "none"
    /\ LET r == MergeStyle(styleJson[p], run.only, JsonStyleOfRepo(run.only, v),
                           raised)
       IN  /\ styleJson' = [styleJson EXCEPT ![p] = r.file]
           /\ run' = [run EXCEPT !.exc = r.exc]
           /\ last' = [p |-> p, only |-> run.only, v |-> v,
                       before |-> styleJson[p], did |-> r.did,
                       again |-> /\ last.p = p
                                 /\ last.only = run.only
                                 /\ last.v = v
                                 /\ last.did \notin {"nothing", "raised"}
                                 /\ r.did # "raised"]

\* A style.json found by the first run: none, a truncated or otherwise
\* malformed one, or a well-formed document.
FoundFiles ==
    { Absent, FileOf(<<>>), FileOf(<<Garbage>>), FileOf(<<ArrayDocument>>) }

(***************************************************************************)
(* update.py: the scoped checkouts random_commit and commit.               *)
(***************************************************************************)
RevList(c) == IF c = None THEN {} ELSE { a \in Commits : a <= c }

\* random_commit.fix_checkout: `git status` is run with
\* universal_newlines=True, so status is a str and the test
\* `b"detached at" not in status` raises TypeError before anything else.
fix_checkout(statusOk) ==
    IF ~statusOk THEN "CalledProcessError" ELSE "TypeError"

\* random_commit.pick_random_commit: random.choice of an empty list raises
\* IndexError; otherwise any commit of rev-list can be chosen.
PickChoices(initial) ==
    IF RevList(initial) = {} THEN {None} ELSE RevList(initial)

\* random_commit.__enter__ on a clone whose HEAD is h.
\* Returns what the with statement sees: the exception raised (or "none"),
\* the value kept in self.initial_commit, the new HEAD and the value bound
\* by `as`.
RandomCommitEnter(h, statusOk, revOk, pick, coOk) ==
    IF fix_checkout(statusOk) # "none"
    THEN [exc |-> fix_checkout(statusOk), initial |-> None, head |-> h,
          as |-> None]
    ELSE IF ~revOk
    THEN [exc |-> "CalledProcessError", initial |-> None, head |-> h,
          as |-> None]
    ELSE IF pick = None
    THEN [exc |-> "IndexError", initial |-> h, head |-> h, as |-> None]
    ELSE IF ~coOk
    THEN [exc |-> "CalledProcessError", initial |-> h, head |-> h,
          as |-> None]
    ELSE [exc |-> "none", initial |-> h, head |-> pick, as |-> pick]

\* random_commit.__enter__ of src/pystyle/pystyle_update.py: no fix_checkout,
\* and `git checkout` without -f.
PackagedRandomCommitEnter(h, revOk, pick, coOk) ==
    IF ~revOk
    THEN [exc |-> "CalledProcessError", initial |-> None, head |-> h,
          as |-> None]
    ELSE IF pick = None
    THEN [exc |-> "IndexError", initial |-> h, head |-> h, as |-> None]
    ELSE IF ~coOk
    THEN [exc |-> "CalledProcessError", initial |-> h, head |-> h,
          as |-> None]
    ELSE [exc |-> "none", initial |-> h, head |-> pick, as |-> pick]

\* infer_style of src/pystyle/pystyle_update.py wraps its with statement in
\* try/except Exception and returns None; the other jobs let the exception
\* go to starmap.
EndOfJob(tk, exc) ==
    IF exc = "none" THEN "returned"
    ELSE IF tk.cm = "packaged_random_commit" THEN "returned_none"
    ELSE "raised"

\* commit.__enter__ on a clone whose HEAD is h.
CommitEnter(h, target, revOk, coOk) ==
    IF ~revOk
    THEN [exc |-> "CalledProcessError", initial |-> None, head |-> h,
          as |-> None]
    ELSE IF ~coOk
    THEN [exc |-> "CalledProcessError", initial |-> h, head |-> h,
          as |-> None]
    ELSE [exc |-> "none", initial |-> h, head |-> target, as |-> target]

\* A slip in __exit__: checking out the commit the scope was opened on.
ExitCheckoutScopeCommit(tk) == tk.as

\* __exit__ of both classes: `git checkout -f self.initial_commit`.
ExitCheckoutTarget(tk) == tk.initial

\* What leaves the with statement: __exit__ returns None, so an exception
\* of the body is re-raised; an exception of __exit__ replaces it.
ExitException(tk, coOk) ==
    IF ~coOk THEN "CalledProcessError" ELSE tk.bodyExc

NewTask(cm, repo, target, pc) ==
    [cm |-> cm, repo |-> repo, target |-> target, pc |-> pc,
     initial |-> None, as |-> None, bodyExc |-> "none", exc |-> "none",
     left |-> "no", headLeft |-> None, ret |-> "nothing", tree |-> None,
     failAt |-> 0]

\* A worker reaches the with statement: __enter__ runs.  When it raises the
\* body is skipped and __exit__ is not called.
Enter(t) ==
    /\ task[t].pc = "start"
    /\ \E statusOk \in BOOLEAN, revOk \in BOOLEAN, coOk \in BOOLEAN :
       \E pick \in PickChoices(IF revOk THEN head[task[t].repo] ELSE None) :
          LET tk == task[t]
              r == IF tk.cm = "random_commit"
                   THEN RandomCommitEnter(head[tk.repo], statusOk, revOk,
                                          pick, coOk)
                   ELSE IF tk.cm = "packaged_random_commit"
                   THEN PackagedRandomCommitEnter(head[tk.repo], revOk, pick,
                                                  coOk)
                   ELSE CommitEnter(head[tk.repo], tk.target, revOk, coOk)
          IN  /\ head' = [head EXCEPT ![tk.repo] = r.head]
              /\ task' = [task EXCEPT ![t] =
                    [tk EXCEPT !.initial = r.initial, !.as = r.as,
                               !.exc = r.exc,
                               !.pc = IF r.exc = "none" THEN "body"
                                      ELSE EndOfJob(tk, r.exc)]]

\* __exit__ runs whenever the body has ended, normally or not.
Exit(t) ==
    /\ task[t].pc = "exit"
    /\ \E coOk \in BOOLEAN :
          LET tk == task[t]
              h == IF coOk THEN ExitCheckoutTarget(tk) ELSE head[tk.repo]
              e == ExitException(tk, coOk)
          IN  /\ head' = [head EXCEPT ![tk.repo] = h]
              /\ task' = [task EXCEPT ![t] =
                    [tk EXCEPT !.left = IF coOk THEN "restored"
                                        ELSE "checkout_failed",
                               !.headLeft = h,
                               !.exc = e,
                               !.ret = IF e = "none" THEN tk.ret
                                       ELSE "nothing",
                               !.pc = EndOfJob(tk, e)]]

(***************************************************************************)
(* The scoped checkouts under an arbitrary body: the body of a with        *)
(* statement either runs to its end or raises.                             *)
(***************************************************************************)
BodyReturns(t) ==
    /\ task[t].pc = "body"
    /\ task' = [task EXCEPT ![t] = [@ EXCEPT !.pc = "exit"]]
    /\ UNCHANGED head

BodyRaises(t) ==
    /\ task[t].pc = "body"
    /\ task' = [task EXCEPT ![t] =
          [@ EXCEPT !.pc = "exit", !.bodyExc = "BodyError"]]
    /\ UNCHANGED head

ScopeKinds == {"random_commit", "commit"}

InitScope ==
    /\ head = InitHead
    /\ task \in [1..MaxScopes ->
          { NewTask(cm, 1, IF cm = "commit" THEN target ELSE None, "start") :
              cm \in ScopeKinds, target \in Commits }]
    /\ mode = "scope"
    /\ only = NoFilter
    /\ csv = NotWritten
    /\ stats = {}
    /\ NoFun
    /\ NoGit
    /\ batch = "none"
    /\ NoCrawl
    /\ NoMerge

NextScope ==
    \E t \in DOMAIN task :
        \/ Enter(t) /\ UNCHANGED <<batchVars, crawlVars, mergeVars, funVars, gitVars>>
        \/ BodyReturns(t) /\ UNCHANGED <<batchVars, crawlVars, mergeVars, funVars, gitVars>>
        \/ BodyRaises(t) /\ UNCHANGED <<batchVars, crawlVars, mergeVars, funVars, gitVars>>
        \/ Exit(t) /\ UNCHANGED <<batchVars, crawlVars, mergeVars, funVars, gitVars>>

SpecScope == InitScope /\ [][NextScope]_vars

(***************************************************************************)
(* update.py: the batch runs infer_style_of_all_repos (a pool of 8 over    *)
(* the globbed clone directories) and update_style_of_all_repos (a pool of *)
(* 4 over the rows of the stats CSV).                                      *)
(***************************************************************************)
InferProcesses == 8
UpdateProcesses == 4
Processes(m) == IF m \in {"infer", "packaged_infer"} THEN InferProcesses ELSE UpdateProcesses

Filters == { NoFilter, <<"l","i","c","e","n","s","e">> }

MetaKeys == {"commit", "repo", "date"}

\* The header of a stats CSV written by a full run of infer_style_of_all_repos.
FullHeader == SelectedKeys(NoFilter) \cup MetaKeys

\* The headers of the stats CSV given to --update: a full run writes the
\* union of the keys of its records, with a shebang:python3 column or none;
\* a run with --only license writes the license column alone.
StatsHeaders ==
    { FullHeader, FullHeader \cup {"shebang:python3"},
      SelectedKeys(<<"l","i","c","e","n","s","e">>) \cup MetaKeys }

\* A row of the stats CSV as csv.DictReader returns it.
CsvLine(repo, c) ==
    [k \in stats |->
        IF k = "repo" THEN <<"repo", repo>>
        ELSE IF k = "commit" THEN <<"commit", c>>
        ELSE <<"csv", c>>]

Rows == { [repo |-> r, commit |-> c] : r \in Clones, c \in Commits }

RowSeqs == UNION { [1..n -> Rows] : n \in 0..MaxRows }

\* git_store.glob("*/*/*/"): the clone directories present, each once.
GlobSeqs == { q \in UNION { [1..n -> Clones] : n \in 0..MaxClones } :
                \A i, j \in DOMAIN q : i < j => q[i] < q[j] }

Running(tk) == tk.pc \in {"body", "exit"}
Finished(tk) == tk.pc \in {"returned", "returned_none", "raised"}

\* A worker of the pool is free to take the next job.
PoolFree == Cardinality({ t \in DOMAIN task : Running(task[t]) }) < Processes(mode)

\* What a worker keeps of a body that ran: the tree the extractors saw and
\* the extractor that raised first (0: none); the record itself is
\* StyleOf(tk) below.
InferStyleBody(showOk, tree, failAt) ==
    IF ~showOk
    THEN [bodyExc |-> "CalledProcessError", ret |-> "nothing",
          tree |-> None, failAt |-> 0]
    ELSE [bodyExc |-> "none", ret |-> "value", tree |-> tree,
          failAt |-> failAt]

\* The body of infer_style of src/pystyle/pystyle_update.py: an extractor
\* that raises ends the body with its exception.
PackagedInferStyleBody(showOk, tree, failAt) ==
    IF ~showOk
    THEN [bodyExc |-> "CalledProcessError", ret |-> "nothing",
          tree |-> None, failAt |-> 0]
    ELSE IF failAt # 0
    THEN [bodyExc |-> "ExtractorError", ret |-> "nothing",
          tree |-> None, failAt |-> 0]
    ELSE [bodyExc |-> "none", ret |-> "value", tree |-> tree, failAt |-> 0]

UpdateStyleBody(tree, failAt) ==
    [bodyExc |-> "none", ret |-> "value", tree |-> tree, failAt |-> failAt]

\* The record infer_style returns from the body of its with statement:
\* `git show` gave the commit date, infer_style_of_repo ran on the working
\* tree, and commit, repo and date are added.
InferStyleRecord(tk) ==
    DictUpdate(infer_style_of_repo(only, tk.tree, tk.failAt),
               [k \in MetaKeys |->
                   IF k = "repo" THEN <<"repo", tk.repo>>
                   ELSE IF k = "commit" THEN <<"commit", tk.as>>
                   ELSE <<"date", tk.tree>>])

\* The record update_style returns:
\* line.update(infer_style_of_repo(repo, only)); return line.
UpdateStyleRecord(tk) ==
    DictUpdate(CsvLine(tk.repo, tk.target),
               infer_style_of_repo(only, tk.tree, tk.failAt))

\* src/pystyle/pystyle_update.py: style["commit"] = commit;
\* style["date"] = commit_date; there is no "repo" key.
PackagedInferStyleRecord(tk) ==
    DictUpdate(PackagedStyleOfRepo(only, tk.tree),
               [k \in {"commit", "date"} |->
                   IF k = "commit" THEN <<"commit", tk.as>>
                   ELSE <<"date", tk.tree>>])

\* The value a job hands back to starmap (it exists when tk.ret = "value").
StyleOf(tk) ==
    IF tk.cm = "random_commit" THEN InferStyleRecord(tk)
    ELSE IF tk.cm = "packaged_random_commit" THEN PackagedInferStyleRecord(tk)
    ELSE UpdateStyleRecord(tk)

Body(t) ==
    /\ task[t].pc = "body"
    /\ \E showOk \in BOOLEAN,
          failAt \in IF task[t].cm = "packaged_random_commit"
                     THEN PackagedFailPoints(only) ELSE FailPoints(only) :
          LET tk == task[t]
              r == IF tk.cm = "random_commit"
                   THEN InferStyleBody(showOk, head[tk.repo], failAt)
                   ELSE IF tk.cm = "packaged_random_commit"
                   THEN PackagedInferStyleBody(showOk, head[tk.repo], failAt)
                   ELSE UpdateStyleBody(head[tk.repo], failAt)
          IN  task' = [task EXCEPT ![t] =
                 [tk EXCEPT !.pc = "exit", !.bodyExc = r.bodyExc,
                            !.ret = r.ret, !.tree = r.tree,
                            !.failAt = r.failAt]]
    /\ UNCHANGED head

\* pool.starmap returns the list of results once every job has ended, or
\* re-raises the exception of a job that raised.
StarmapRaises == \E t \in DOMAIN task : task[t].pc = "raised"

\* all_styles = [style for style in all_styles if style is not None]
Kept ==
    LET NotNone(t) == task[t].pc = "returned"
    IN  SelectSeq([t \in DOMAIN task |-> t], NotNone)

Returned == [i \in DOMAIN Kept |-> StyleOf(task[Kept[i]])]

\* A cell of a CSV: the text the writer gets from str(value).
Cell(value) == <<"text", value>>

\* A restval of "0".
RestValZero == Cell(<<"0">>)

\* csv.DictWriter is built without restval: a missing key is written as "".
RestVal == Cell(<<>>)

\* DictWriter._dict_to_list: rowdict.get(key, self.restval) for each column.
DictToList(fieldnames, rowdict) ==
    [k \in fieldnames |->
        IF k \in DOMAIN rowdict THEN Cell(rowdict[k]) ELSE RestVal]

\* csv.DictWriter.writerows with the default extrasaction="raise": a row
\* with a key outside fieldnames raises ValueError; the header and the rows
\* before it are already written.
WriteCsv(fieldnames, rows) ==
    LET bad == { i \in DOMAIN rows : ~(DOMAIN rows[i] \subseteq fieldnames) }
        n == IF bad = {} THEN Len(rows)
             ELSE (CHOOSE i \in bad : \A j \in bad : i <= j) - 1
    IN  [written |-> TRUE, header |-> fieldnames,
         rows |-> [i \in 1..n |-> DictToList(fieldnames, rows[i])],
         exc |-> IF bad = {} THEN "none" ELSE "ValueError"]

\* infer_style_of_all_repos after the pool: the header is the union of the
\* keys of all styles.  update_style_of_all_repos: the header is the one of
\* the CSV read.
Finish ==
    /\ batch = "running"
    /\ \A t \in DOMAIN task : Finished(task[t])
    /\ IF StarmapRaises
       THEN /\ batch' = "crashed"
            /\ csv' = csv
       ELSE LET fieldnames ==
                    IF mode \in {"infer", "packaged_infer"}
                    THEN UNION { DOMAIN Returned[i] : i \in DOMAIN Returned }
                    ELSE stats
                w == WriteCsv(fieldnames, Returned)
            IN  /\ csv' = w
                /\ batch' = IF w.exc = "none" THEN "done" ELSE "crashed"
    /\ UNCHANGED <<head, task, mode, only, stats, crawlVars, mergeVars, funVars, gitVars>>

Init ==
    /\ head = InitHead
    /\ mode \in {"infer", "update"}
    /\ only \in Filters
    /\ task \in IF mode = "infer"
                THEN { [i \in DOMAIN q |->
                          NewTask("random_commit", q[i], None, "start")] :
                       q \in GlobSeqs }
                ELSE { [i \in DOMAIN q |->
                          NewTask("commit", q[i].repo, q[i].commit, "start")] :
                       q \in RowSeqs }
    /\ csv = NotWritten
    /\ stats \in IF mode = "update" THEN StatsHeaders ELSE {{}}
    /\ NoFun
    /\ NoGit
    /\ batch = "running"
    /\ NoCrawl
    /\ NoMerge

WorkerEnter(t) == PoolFree /\ Enter(t) /\ UNCHANGED <<batchVars, crawlVars, mergeVars, funVars, gitVars>>
WorkerBody(t) == Body(t) /\ UNCHANGED <<batchVars, crawlVars, mergeVars, funVars, gitVars>>
WorkerExit(t) == Exit(t) /\ UNCHANGED <<batchVars, crawlVars, mergeVars, funVars, gitVars>>

Next ==
    \/ \E t \in DOMAIN task : WorkerEnter(t)
    \/ \E t \in DOMAIN task : WorkerBody(t)
    \/ \E t \in DOMAIN task : WorkerExit(t)
    \/ Finish

Spec == Init /\ [][Next]_vars

(***************************************************************************)
(* src/pystyle/pystyle_update.py: infer_style_of_all_repos of the packaged *)
(* variant, whose jobs return None instead of raising.                     *)
(***************************************************************************)
InitPackaged ==
    /\ head = InitHead
    /\ mode = "packaged_infer"
    /\ only \in Filters
    /\ task \in { [i \in DOMAIN q |->
                     NewTask("packaged_random_commit", q[i], None, "start")] :
                  q \in GlobSeqs }
    /\ csv = NotWritten
    /\ stats = {}
    /\ NoFun
    /\ NoGit
    /\ batch = "running"
    /\ NoCrawl
    /\ NoMerge

NextPackaged ==
    \/ \E t \in DOMAIN task : WorkerEnter(t)
    \/ \E t \in DOMAIN task : WorkerBody(t)
    \/ \E t \in DOMAIN task : WorkerExit(t)
    \/ Finish

SpecPackaged == InitPackaged /\ [][NextPackaged]_vars

(***************************************************************************)
(* The crawler: any sequence of calls of git_clone_or_update.               *)
(***************************************************************************)
\* The git store is missing or an empty directory when the crawler is first
\* run.
InitCrawl ==
    /\ crawler \in Crawlers
    /\ \E st \in GitStores, made \in BOOLEAN :
          fs = [d \in Dirs |-> IF made /\ d = Segments(st) THEN "dir"
                               ELSE "absent"]
    /\ call = NoCall
    /\ clonePaths = {}
    /\ head = InitHead
    /\ task = <<>>
    /\ mode = "crawl"
    /\ only = NoFilter
    /\ csv = NotWritten
    /\ stats = {}
    /\ NoFun
    /\ NoGit
    /\ batch = "none"
    /\ NoMerge

NextCrawl ==
    \/ \E entry \in {"repository", "pypi_project", "reclone", "feed"},
          store \in GitStores :
          \E url \in EntryUrls(entry) :
             StartCall(entry, store, url) /\ UNCHANGED <<scopeVars, batchVars, mergeVars, funVars, gitVars>>
    \/ Pull /\ UNCHANGED <<scopeVars, batchVars, mergeVars, funVars, gitVars>>
    \/ RmtreeOldCopy /\ UNCHANGED <<scopeVars, batchVars, mergeVars, funVars, gitVars>>
    \/ MakeDirs /\ UNCHANGED <<scopeVars, batchVars, mergeVars, funVars, gitVars>>
    \/ Clone /\ UNCHANGED <<scopeVars, batchVars, mergeVars, funVars, gitVars>>
    \/ RmtreeFailedClone /\ UNCHANGED <<scopeVars, batchVars, mergeVars, funVars, gitVars>>

SpecCrawl == InitCrawl /\ [][NextCrawl]_vars

(***************************************************************************)
(* The JSON store: any sequence of runs of infer_style of                  *)
(* pystyle_update.py; between runs the git store and the trees change.     *)
(***************************************************************************)
InitMerge ==
    /\ styleJson \in [JsonProjects -> FoundFiles]
    /\ run \in { [only |-> o, exc |-> "none"] : o \in JsonFilters }
    /\ last = NoLast
    /\ head = InitHead
    /\ task = <<>>
    /\ mode = "json"
    /\ only = NoFilter
    /\ csv = NotWritten
    /\ stats = {}
    /\ NoFun
    /\ NoGit
    /\ batch = "none"
    /\ NoCrawl

NextMerge ==
    \/ \E o \in JsonFilters :
          StartRun(o) /\ UNCHANGED <<scopeVars, batchVars, crawlVars, funVars, gitVars>>
    \/ \E p \in JsonProjects, v \in Versions, raised \in BOOLEAN :
          Iterate(p, v, raised) /\ UNCHANGED <<scopeVars, batchVars, crawlVars, funVars, gitVars>>

SpecMerge == InitMerge /\ [][NextMerge]_vars

(***************************************************************************)
(* Functions taken alone: one call on an argument of a bounded set, the    *)
(* rest of the program standing still.                                     *)
(***************************************************************************)
Standstill ==
    /\ head = InitHead
    /\ task = <<>>
    /\ mode = "function"
    /\ only = NoFilter
    /\ csv = NotWritten
    /\ batch = "none"
    /\ stats = {}
    /\ NoCrawl
    /\ NoMerge
    /\ NoGit

Others == <<scopeVars, batchVars, crawlVars, mergeVars, gitVars>>

(***************************************************************************)
(* pystyle_crawl.py: is_github_project_url.  A URL is a scheme-and-host    *)
(* token followed by the characters of the rest.                           *)
(***************************************************************************)
MaxUrlLen == 6      \* characters of a URL after the host

Hosts == { "https://github.com", "https://githubXcom", "http://github.com" }

UrlChars == { "a", "/" }

Urls ==
    { <<h>> \o r : h \in Hosts,
                   r \in UNION { [1..n -> UrlChars] : n \in 0..MaxUrlLen } }

\* The literal part of the pattern, 'https://github.com', in which the dot
\* is unescaped and matches any character.
HostMatches(h) == h \in { "https://github.com", "https://githubXcom" }

\* [^/]* in pystyle/pystyle_crawl.py, [^/]+ in src/pystyle/pystyle_crawl.py
MinSegment(c) == IF c = "pystyle/pystyle_crawl.py" THEN 0 ELSE 1

NoSlashIn(r, from, to) == \A i \in from..to : r[i] # "/"

\* re.match(pattern, url) is not None: the pattern is matched at the start
\* of url and need not reach its end.  a and b are the lengths of the two
\* [^/] runs; the final /? can always match empty.
is_github_project_url(c, url) ==
    LET r == Tail(url)
    IN  /\ HostMatches(url[1])
        /\ \E a \in MinSegment(c)..Len(r), b \in MinSegment(c)..Len(r) :
              /\ 2 + a + b <= Len(r)
              /\ r[1] = "/"
              /\ NoSlashIn(r, 2, 1 + a)
              /\ r[2 + a] = "/"
              /\ NoSlashIn(r, 3 + a, 2 + a + b)

InitUrl == Standstill /\ NoFun

CallIsGithubProjectUrl(c, url) ==
    /\ NoFun
    /\ arg' = <<c, url>>
    /\ ret' = <<is_github_project_url(c, url)>>
    /\ UNCHANGED Others

NextUrl ==
    NoFun /\ \E c \in Crawlers, url \in Urls : CallIsGithubProjectUrl(c, url)

SpecUrl == InitUrl /\ [][NextUrl]_vars

(***************************************************************************)
(* pystyle/pystyle_crawl.py: pypi_url_to_github_url on the response of the *)
(* PyPI JSON API.  The text of a response is a sequence of words; the      *)
(* value of home_page, when it is a string, is one of them.                *)
(***************************************************************************)
MaxWords == 2       \* words of a response besides the home_page

Words ==
    { u \in Urls : /\ u[1] \in {"https://github.com", "http://github.com"}
                   /\ Len(u) \in 4..6
                   /\ u[2] = "/"
                   /\ u[3] = "a" }

\* project_json['home_page']: the key is missing, or null, or a string.
HomePages == { <<"missing">>, <<"null">> } \cup { <<"str", w>> : w \in Words }

\* The responses with at most max words besides the home_page.
Responses(max) ==
    { [home |-> h, words |-> ws] :
        h \in HomePages, ws \in UNION { [1..n -> Words] : n \in 0..max } }

\* The text of a response
ResponseText(page) ==
    IF page.home[1] = "str" THEN <<page.home[2]>> \o page.words
    ELSE page.words

\* The length of the run of [a-zA-Z0-9_-] characters of r that starts at
\* position from.
RECURSIVE NameRun(_, _)
NameRun(r, from) ==
    IF from > Len(r) \/ r[from] = "/" THEN 0 ELSE 1 + NameRun(r, from + 1)

\* What re.findall('https://github.com/[a-zA-Z0-9_-]+/[a-zA-Z0-9_-]+/?', …)
\* finds in one word: the greedy match, or <<>> when there is none.
FindGithub(w) ==
    LET r == Tail(w)
        a == NameRun(r, 2)
        b == NameRun(r, 3 + a)
        n == 2 + a + b
    IN  IF /\ HostMatches(w[1])
           /\ r[1] = "/"
           /\ a >= 1
           /\ 2 + a <= Len(r)
           /\ b >= 1
        THEN <<w[1]>> \o SubSeq(r, 1, IF n < Len(r) THEN n + 1 ELSE n)
        ELSE <<>>

\* re.findall over the text, in order of appearance
FoundGithub(text) ==
    LET Found(w) == FindGithub(w) # <<>>
        ws == SelectSeq(text, Found)
    IN  [i \in DOMAIN ws |-> FindGithub(ws[i])]

\* sorted(found_github, key=len)[0]: sorted is stable, so the first of the
\* shortest ones.
ShortestFirst(found) ==
    found[CHOOSE i \in DOMAIN found :
            /\ \A j \in DOMAIN found : Len(found[i]) <= Len(found[j])
            /\ \A j \in 1..(i - 1) : Len(found[j]) > Len(found[i])]

\* except KeyError:
FallbackOn == {"KeyError"}

\* How the structured lookup ends: home_page returned, KeyError (no such
\* key), TypeError (re.match on None), or the if is false.
StructuredLookup(page) ==
    IF page.home[1] = "missing" THEN "KeyError"
    ELSE IF page.home[1] = "null" THEN "TypeError"
    ELSE IF is_github_project_url("pystyle/pystyle_crawl.py", page.home[2])
    THEN "home_page"
    ELSE "NotGithub"

\* value <<>>: the function returns None (also by falling off its end).
pypi_url_to_github_url(page) ==
    LET how == StructuredLookup(page)
        found == FoundGithub(ResponseText(page))
    IN  IF how = "home_page" THEN [exc |-> "none", value |-> page.home[2]]
        ELSE IF how \in FallbackOn
        THEN [exc |-> "none",
              value |-> IF found # <<>> THEN ShortestFirst(found) ELSE <<>>]
        ELSE IF how = "TypeError" THEN [exc |-> "TypeError", value |-> <<>>]
        ELSE [exc |-> "none", value |-> <<>>]

InitPypi == Standstill /\ NoFun

CallPypiUrlToGithubUrl(page) ==
    /\ NoFun
    /\ arg' = page
    /\ ret' = pypi_url_to_github_url(page)
    /\ UNCHANGED Others

NextPypi == NoFun /\ \E page \in Responses(MaxWords) : CallPypiUrlToGithubUrl(page)

SpecPypi == InitPypi /\ [][NextPypi]_vars

(***************************************************************************)
(* infer_license of update.py and of pystyle_update.py.  A tree is what    *)
(* each candidate name is in it.                                           *)
(***************************************************************************)
probable_license_files == <<"LICENSE", "LICENSE.txt", "LICENCE", "LICENCE.txt">>

\* What a candidate name can be in a tree: no such entry; a file whose
\* license licensename identifies, or does not; a file that is not text; a
\* directory; a file the process may not read; a symlink to nothing.
FileKinds ==
    { "absent", "identified", "unknown", "undecodable", "directory", "denied",
      "broken_symlink" }

LicenseTrees == [DOMAIN probable_license_files -> FileKinds]

LicenseVariants == { "pystyle/update.py", "pystyle/pystyle_update.py" }

\* licensename.from_file(license_path): opens and reads the file, then
\* returns the name of the license or None.
from_file(kind, i) ==
    CASE kind = "absent" -> [exc |-> "FileNotFoundError", name |-> <<>>]
      [] kind = "broken_symlink" -> [exc |-> "FileNotFoundError", name |-> <<>>]
      [] kind = "undecodable" -> [exc |-> "UnicodeDecodeError", name |-> <<>>]
      [] kind = "directory" -> [exc |-> "IsADirectoryError", name |-> <<>>]
      [] kind = "denied" -> [exc |-> "PermissionError", name |-> <<>>]
      [] kind = "unknown" -> [exc |-> "none", name |-> <<>>]
      [] kind = "identified" ->
            [exc |-> "none", name |-> <<"license of", probable_license_files[i]>>]

\* An except clause for UnicodeDecodeError alone.
CaughtUnicodeDecodeOnly == {"UnicodeDecodeError"}

\* except (FileNotFoundError, UnicodeDecodeError): continue
CaughtByInferLicense == {"FileNotFoundError", "UnicodeDecodeError"}

\* return {"license": license_name} in update.py, return license_name in
\* pystyle_update.py
LicenseFound(variant, name) ==
    IF variant = "pystyle/update.py" THEN <<"dict", "license", name>>
    ELSE <<"str", name>>

\* return {"license": ""} in update.py, return None in pystyle_update.py
LicenseNotFound(variant) ==
    IF variant = "pystyle/update.py" THEN <<"dict", "license", <<>>>>
    ELSE <<"None">>

\* The loop of infer_license from candidate i on; consulted: the candidates
\* from_file has been called on so far.
RECURSIVE InferLicenseFrom(_, _, _, _)
InferLicenseFrom(variant, tree, i, consulted) ==
    IF i > Len(probable_license_files)
    THEN [exc |-> "none", value |-> LicenseNotFound(variant),
          consulted |-> consulted]
    ELSE LET r == from_file(tree[i], i)
             seen == Append(consulted, i)
         IN  IF r.exc \in CaughtByInferLicense
             THEN InferLicenseFrom(variant, tree, i + 1, seen)
             ELSE IF r.exc # "none"
             THEN [exc |-> r.exc, value |-> <<>>, consulted |-> seen]
             ELSE IF r.name # <<>>
             THEN [exc |-> "none", value |-> LicenseFound(variant, r.name),
                   consulted |-> seen]
             ELSE InferLicenseFrom(variant, tree, i + 1, seen)

infer_license(variant, tree) == InferLicenseFrom(variant, tree, 1, <<>>)

InitLicense == Standstill /\ NoFun

CallInferLicense(variant, tree) ==
    /\ arg' = [variant |-> variant, tree |-> tree]
    /\ ret' = infer_license(variant, tree)
    /\ UNCHANGED Others

NextLicense ==
    NoFun /\ \E variant \in LicenseVariants, tree \in LicenseTrees :
                CallInferLicense(variant, tree)

SpecLicense == InitLicense /\ [][NextLicense]_vars

(***************************************************************************)
(* count_shebangs of update.py.  A tree is the sequence of the *.py        *)
(* entries that rglob yields, each with what opening it and reading its    *)
(* first line gives.                                                       *)
(***************************************************************************)
MaxPyFiles == 3     \* *.py entries of a tree

\* "env python3": #!/usr/bin/env python3; "python": #!/usr/bin/python;
\* "sh": #!/bin/sh; "plain": a first line that is not a shebang;
\* "unreadable": open or readline raises one of the four caught exceptions.
PyFileKinds == { "env python3", "python", "sh", "plain", "unreadable" }

RECURSIVE SeqsUpTo(_, _)
SeqsUpTo(S, n) ==
    IF n = 0 THEN { <<>> }
    ELSE LET shorter == SeqsUpTo(S, n - 1)
         IN  shorter \cup { Append(t, k) : t \in { u \in shorter : Len(u) = n - 1 }, k \in S }

PyTrees == SeqsUpTo(PyFileKinds, MaxPyFiles)

\* first_line[0:2] == "#!"
StartsWithShebang(kind) == kind \in { "env python3", "python", "sh" }

\* re.search("python[0-9.]*", first_line, re.I): the match, <<>> for None
PythonVersion(kind) ==
    CASE kind = "env python3" -> <<"python3">>
      [] kind = "python" -> <<"python">>
      [] OTHER -> <<>>

\* "shebang:" + version.group(0)
ShebangKey(version) ==
    IF version = <<"python3">> THEN "shebang:python3" ELSE "shebang:python"

\* int(x) of a non-negative quotient: the digits after the point are dropped.
\* Up to MaxPyFiles + 1 files the double 100 * (qty / py_files) has the
\* integer part of the exact quotient.
int(n, d) == n \div d

count_shebangs(tree) ==
    LET py_files == Len(tree)
        counted == { i \in DOMAIN tree : StartsWithShebang(tree[i]) }
        shebangs_qty == Cardinality(counted)
        versioned == { i \in counted : PythonVersion(tree[i]) # <<>> }
        keys == { ShebangKey(PythonVersion(tree[i])) : i \in versioned }
        pct == IF py_files # 0 THEN int(100 * shebangs_qty, py_files) ELSE 0
    IN  [k \in keys \cup {"shebangs_pct"} |->
            IF k = "shebangs_pct" THEN pct
            ELSE Cardinality({ i \in versioned :
                                  ShebangKey(PythonVersion(tree[i])) = k })]

InitShebang == Standstill /\ NoFun

CallCountShebangs(tree) ==
    /\ arg' = [path |-> tree]
    /\ ret' = count_shebangs(tree)
    /\ UNCHANGED Others

NextShebang == NoFun /\ \E tree \in PyTrees : CallCountShebangs(tree)

SpecShebang == InitShebang /\ [][NextShebang]_vars

(***************************************************************************)
(* infer_style_of_repo of update.py and of pystyle_update.py, called on    *)
(* its own with a filter.                                                  *)
(***************************************************************************)
MaxFilterLen == 2   \* characters of a filter made of FilterChars

FilterChars == { "e", "s", "_", "d", "x" }

\* The values of `only`: None, "", the short strings over FilterChars (some
\* are in no extractor name) and two whole names.
StyleFilters ==
    { NoFilter, <<"l","i","c","e","n","s","e">>, <<"s","h","e","b","a","n","g">> }
    \cup UNION { [1..n -> FilterChars] : n \in 0..MaxFilterLen }

StyleVariants == { "pystyle/update.py", "pystyle/pystyle_update.py" }

\* The extractors whose function has been called when the loop ends.
Invoked(o, failAt) ==
    { i \in DOMAIN Methods : Selected(o, i) /\ (failAt = 0 \/ i <= failAt) }

StyleOfRepo(variant, o, tree, failAt) ==
    IF variant = "pystyle/update.py"
    THEN [exc |-> "none", value |-> infer_style_of_repo(o, tree, failAt),
          invoked |-> Invoked(o, failAt)]
    ELSE IF failAt = 0
    THEN [exc |-> "none", value |-> PackagedStyleOfRepo(o, tree),
          invoked |-> Invoked(o, failAt) \cap PackagedMethods]
    ELSE [exc |-> "Exception", value |-> <<>>,
          invoked |-> Invoked(o, failAt) \cap PackagedMethods]

InitStyle == Standstill /\ NoFun

CallInferStyleOfRepo(variant, o, tree, failAt) ==
    /\ failAt \in IF variant = "pystyle/update.py" THEN FailPoints(o)
                  ELSE PackagedFailPoints(o)
    /\ arg' = [variant |-> variant, only |-> o, tree |-> tree, failAt |-> failAt]
    /\ ret' = StyleOfRepo(variant, o, tree, failAt)
    /\ UNCHANGED Others

NextStyle ==
    NoFun /\ \E variant \in StyleVariants, o \in StyleFilters,
                tree \in 1..MaxCommit, failAt \in 0..Len(Methods) :
                CallInferStyleOfRepo(variant, o, tree, failAt)

SpecStyle == InitStyle /\ [][NextStyle]_vars

(***************************************************************************)
(* Branch attachment.  `git checkout -f <sha>` leaves HEAD detached at the *)
(* commit; `git pull --ff-only` needs HEAD on a branch.  The clones have   *)
(* one branch, master, whose tip is the last commit of the history.        *)
(***************************************************************************)
UpstreamTip == MaxCommit

GitScopeKinds == { "random_commit", "commit", "packaged_random_commit" }

Ended(t) == task[t].pc \in { "returned", "returned_none", "raised" }

\* HEAD after `git checkout -f <sha>` has succeeded
CheckedOutBySha == "detached"

\* A clone is on master at its tip, or was left detached at some commit by
\* an earlier run.
InitGit ==
    /\ mode = "git"
    /\ only = NoFilter
    /\ csv = NotWritten
    /\ batch = "none"
    /\ stats = {}
    /\ NoCrawl
    /\ NoMerge
    /\ NoFun
    /\ task \in [1..MaxScopes ->
          { NewTask(cm, 1, IF cm = "commit" THEN target ELSE None, "start") :
              cm \in GitScopeKinds, target \in Commits }]
    /\ \E b \in { "master", "detached" }, h \in Commits :
          /\ b = "master" => h = UpstreamTip
          /\ head = [c \in Clones |-> IF c = 1 THEN h ELSE UpstreamTip]
          /\ git = [branch |-> [c \in Clones |-> IF c = 1 THEN b ELSE "master"],
                    first |-> b,
                    entry |-> [t \in 1..MaxScopes |-> "not entered"],
                    exit |-> [t \in 1..MaxScopes |-> "not left"],
                    pull |-> "none", clone |-> "none"]

\* __enter__: the checkout of the chosen or given commit, when it succeeds,
\* detaches HEAD.
GitEnter(t) ==
    /\ Enter(t)
    /\ git' = [git EXCEPT
          !.entry[t] = git.branch[task[t].repo],
          !.branch[task[t].repo] =
              IF task'[t].pc = "body" THEN CheckedOutBySha ELSE @]

GitBodyReturns(t) == BodyReturns(t) /\ UNCHANGED git

GitBodyRaises(t) == BodyRaises(t) /\ UNCHANGED git

\* __exit__: `git checkout -f self.initial_commit`, a sha from rev-parse.
GitExit(t) ==
    /\ Exit(t)
    /\ LET b == IF task'[t].left = "restored" THEN CheckedOutBySha
                ELSE git.branch[task[t].repo]
       IN  git' = [git EXCEPT !.branch[task[t].repo] = b, !.exit[t] = b]

\* git_clone_or_update on clone 1 once the analysis is over: the pull, and
\* on CalledProcessError rmtree, makedirs and clone.
GitCloneOrUpdate ==
    /\ \A t \in DOMAIN task : Ended(t)
    /\ git.pull = "none"
    /\ \E pullOk \in BOOLEAN, cloneOk \in BOOLEAN :
          IF git.branch[1] = "master" /\ pullOk
          THEN /\ git' = [git EXCEPT !.pull = "fast_forward"]
               /\ head' = [head EXCEPT ![1] = UpstreamTip]
          ELSE /\ git' = [git EXCEPT
                     !.pull = IF git.branch[1] = "master" THEN "failed"
                              ELSE "not_on_branch",
                     !.clone = IF cloneOk THEN "cloned" ELSE "failed",
                     !.branch[1] = IF cloneOk THEN "master" ELSE "no clone"]
               /\ head' = [head EXCEPT ![1] = IF cloneOk THEN UpstreamTip ELSE None]
    /\ UNCHANGED task

NextGit ==
    \/ \E t \in DOMAIN task :
        \/ GitEnter(t) /\ UNCHANGED <<batchVars, crawlVars, mergeVars, funVars>>
        \/ GitBodyReturns(t) /\ UNCHANGED <<batchVars, crawlVars, mergeVars, funVars>>
        \/ GitBodyRaises(t) /\ UNCHANGED <<batchVars, crawlVars, mergeVars, funVars>>
        \/ GitExit(t) /\ UNCHANGED <<batchVars, crawlVars, mergeVars, funVars>>
    \/ GitCloneOrUpdate /\ UNCHANGED <<batchVars, crawlVars, mergeVars, funVars>>

SpecGit == InitGit /\ [][NextGit]_vars

(***************************************************************************)
(* detect_test_engine of update.py.  A tree gives, for each file of the    *)
(* fixed list, what is at that name; the text of a file is the set of the  *)
(* known engines whose name occurs in it.                                  *)
(***************************************************************************)
MaxPresent == 2     \* names of the list that are not absent from a tree

files_to_search ==
    << "README.txt", "README", "README.md", "README.rst", "tox.ini",
       "requirements.txt", "requirements-dev.txt", "requirements_dev.txt",
       "dev-requirements.txt", "requirements-test.txt",
       "test-requirements.txt", "test_requirements.txt" >>

known_engines == << "nose", "pytest", "unittest" >>

EngineNames == { known_engines[i] : i \in DOMAIN known_engines }

\* [is |-> "text", mentions |-> S]: a readable file in which exactly the
\* engines of S occur; the other kinds have no text.
MetaFileKinds ==
    [is : {"text"}, mentions : SUBSET EngineNames]
    \cup [is : {"absent", "broken_symlink", "directory", "undecodable"},
          mentions : {{}}]

AbsentFile == [is |-> "absent", mentions |-> {}]

\* The trees with at most max names of the list not absent.
MetaTrees(max) ==
    UNION { { [i \in DOMAIN files_to_search |->
                  IF i \in DOMAIN f THEN f[i] ELSE AbsentFile] :
              f \in [present -> MetaFileKinds \ {AbsentFile}] } :
            present \in { P \in SUBSET DOMAIN files_to_search :
                            Cardinality(P) <= max } }

\* (repo_path / file_to_search).exists(): follows symlinks
Exists(file) == file.is \in { "text", "directory", "undecodable" }

\* (repo_path / file_to_search).read_text()
ReadText(file) ==
    CASE file.is = "text" -> "none"
      [] file.is = "directory" -> "IsADirectoryError"
      [] file.is = "undecodable" -> "UnicodeDecodeError"
      [] OTHER -> "FileNotFoundError"

\* for engine in known_engines: if engine in tox_text:
\*     detected_engines[engine] += 1
\* A Counter is the sequence of its keys in insertion order with the counts.
RECURSIVE CountEngines(_, _, _)
CountEngines(counter, mentions, e) ==
    IF e > Len(known_engines) THEN counter
    ELSE LET engine == known_engines[e]
             at == { n \in DOMAIN counter : counter[n][1] = engine }
             next == IF engine \notin mentions THEN counter
                     ELSE IF at = {} THEN Append(counter, <<engine, 1>>)
                     ELSE [n \in DOMAIN counter |->
                             IF n \in at THEN <<engine, counter[n][2] + 1>>
                             ELSE counter[n]]
         IN  CountEngines(next, mentions, e + 1)

\* detected_engines.most_common(1)[0][0]: the first key, in insertion
\* order, with the greatest count; IndexError on an empty Counter.
MostCommon(counter) ==
    IF counter = <<>> THEN <<>>
    ELSE LET n == CHOOSE n \in DOMAIN counter :
                    /\ \A m \in DOMAIN counter : counter[m][2] <= counter[n][2]
                    /\ \A m \in 1..(n - 1) : counter[m][2] < counter[n][2]
         IN  <<counter[n][1]>>

RECURSIVE DetectFrom(_, _, _)
DetectFrom(tree, i, counter) ==
    IF i > Len(files_to_search)
    THEN [exc |-> "none",
          value |-> IF MostCommon(counter) = <<>> THEN ""
                    ELSE MostCommon(counter)[1]]
    ELSE IF ~Exists(tree[i]) THEN DetectFrom(tree, i + 1, counter)
    ELSE IF ReadText(tree[i]) # "none"
    THEN [exc |-> ReadText(tree[i]), value |-> "nothing"]
    ELSE DetectFrom(tree, i + 1, CountEngines(counter, tree[i].mentions, 1))

detect_test_engine(tree) == DetectFrom(tree, 1, <<>>)

CallDetectTestEngine(tree) ==
    /\ arg' = [repo_path |-> tree]
    /\ ret' = detect_test_engine(tree)
    /\ UNCHANGED Others

InitEngine == Standstill /\ NoFun

NextEngine == NoFun /\ \E tree \in MetaTrees(MaxPresent) : CallDetectTestEngine(tree)

SpecEngine == InitEngine /\ [][NextEngine]_vars

(***************************************************************************)
(* C1.  A scope that was entered and then left.                            *)
(***************************************************************************)
HasLeft(tk) == tk.left # "no"

BatchEnded == batch \in {"done", "crashed"}

\* The complete record of the project of job t is a row of the written CSV.
HasCompleteRow(t) ==
    /\ csv.written
    /\ \E i \in DOMAIN csv.rows :
          /\ SelectedKeys(only) \cup MetaKeys \subseteq DOMAIN csv.rows[i]
          /\ csv.rows[i]["repo"] = Cell(<<"repo", task[t].repo>>)
          /\ \A k \in SelectedKeys(only) \cup MetaKeys :
                csv.rows[i][k] # RestVal

\* C2 as stated: in a batch run of infer_style_of_all_repos, an error raised
\* while processing one project aborts no other project: every other
\* project of the batch has its complete record in the written CSV.
C2_ErrorAbortsNoOtherProject ==
    (mode = "infer" /\ BatchEnded) =>
        \A a, b \in DOMAIN task :
            (a # b /\ task[a].pc = "raised") => HasCompleteRow(b)

(***************************************************************************)
(* C3.  An extractor raising inside infer_style_of_repo.                   *)
(***************************************************************************)
AllSelected == { i \in DOMAIN Methods : Selected(only, i) }

\* C3 as stated: when an extractor raises during infer_style_of_repo the
\* remaining selected extractors still run, and the record computed in that
\* run is never a partial one: a job that hands a record back has in it the
\* keys of every selected extractor.
C3_RecordNeverPartial ==
    \A t \in DOMAIN task :
        (task[t].ret = "value" /\ task[t].failAt # 0) =>
            /\ RanBeforeFailure(only, task[t].failAt) = AllSelected
            /\ SelectedKeys(only) \subseteq
                  DOMAIN infer_style_of_repo(only, task[t].tree, task[t].failAt)

(***************************************************************************)
(* C4.  Workers and clones.                                                *)
(***************************************************************************)
\* C4 as stated: no two workers of the pool are ever inside a scoped
\* checkout of the same clone directory at the same time, whatever the
\* input.
C4_OneWorkerPerClone ==
    \A a, b \in DOMAIN task :
        (a # b /\ Running(task[a]) /\ Running(task[b])) =>
            task[a].repo # task[b].repo

(***************************************************************************)
(* C5.  The order of the steps of git_clone_or_update.                     *)
(***************************************************************************)
CallDir == Segments(call.path)

StepsOnExistingCopy ==
    { <<"pull_ok">>,
      <<"pull_failed", "rmtree", "makedirs", "clone_ok">>,
      <<"pull_failed", "rmtree", "makedirs", "clone_failed",
        "rmtree_ignore_errors">> }

StepsWithoutCopy ==
    { <<"makedirs", "clone_ok">>,
      <<"makedirs", "clone_failed", "rmtree_ignore_errors">> }

StepsAllowed == IF call.existed THEN StepsOnExistingCopy ELSE StepsWithoutCopy

CallEnded == call.pc \in {"returned", "raised"}

\* C5: on an existing directory the call first pulls; a successful pull
\* keeps the directory and ends the call without a clone; a failed pull is
\* followed by the removal of the whole copy and only then by makedirs and
\* the clone; without a local copy the directory is made and cloned into
\* with no pull.  No clone is attempted while the old copy is there.
C5_PullThenRemoveThenClone ==
    call.pc # "idle" =>
        /\ \E q \in StepsAllowed : IsPrefix(call.ops, q)
        /\ CallEnded => call.ops \in StepsAllowed
        /\ call.pc = "makedirs" =>
              \A d \in Dirs : IsPrefix(CallDir, d) => fs[d] = "absent"
        /\ call.pc = "clone" => fs[CallDir] = "dir"
        /\ call.ops = <<"pull_ok">> => fs[CallDir] = call.before

\* A call on an existing copy whose pull failed and whose clone succeeded.
C5_Witness ==
    /\ call.existed
    /\ call.pc = "returned"
    /\ call.ops = <<"pull_failed", "rmtree", "makedirs", "clone_ok">>
    /\ fs[CallDir] = "clone"

(***************************************************************************)
(* C6.  A failed clone leaves nothing behind.                              *)
(***************************************************************************)
CloneFailed == \E i \in DOMAIN call.ops : call.ops[i] = "clone_failed"

\* C6: when the clone step fails the call returns without raising and
\* clone_path does not exist afterwards; between calls a clone_path that
\* exists holds a successful clone or pull, never an empty or partly made
\* directory.
C6_FailedCloneLeavesNothing ==
    /\ (CloneFailed /\ CallEnded) =>
          /\ call.pc = "returned"
          /\ call.exc = "none"
          /\ fs[CallDir] = "absent"
    /\ (call.pc = "idle" \/ CallEnded) =>
          \A d \in clonePaths : fs[d] \in {"absent", "clone"}

(***************************************************************************)
(* C7.  Where a clone is placed.                                           *)
(***************************************************************************)
\* <git_store>/<owner>/<project>/ for the URL of the call
ExpectedDir(store, url) == Segments(store) \o Segments(UrlPath(url))

\* C7 as stated: in every entry mode of main the clone of
\* https://github.com/<owner>/<project>, with or without a trailing slash,
\* goes to <git_store>/<owner>/<project>/.
C7_ClonePlacedUnderOwnerProject ==
    call.pc # "idle" => CallDir = ExpectedDir(call.store, call.url)

(***************************************************************************)
(* C8.  Merge-persistence of infer_style in pystyle_update.py is           *)
(* idempotent: whatever style.json holds (nothing, a well-formed document, *)
(* malformed text) and whatever record is computed, merging the identical  *)
(* record a second time leaves the file as the first merge left it.        *)
(***************************************************************************)
C8_MergeTwiceSameAsOnce ==
    /\ \A p \in JsonProjects, o \in JsonFilters, v \in Versions :
          LET style == JsonStyleOfRepo(o, v)
              once == MergeStyle(styleJson[p], o, style, FALSE)
              twice == MergeStyle(once.file, o, style, FALSE)
          IN  /\ twice.file = once.file
              /\ twice.exc = once.exc
    /\ last.again => styleJson[last.p] = last.before

C8_Witness ==
    /\ last.again
    /\ last.did = "merged"
    /\ last.only # NoFilter
    /\ DOMAIN JsonRead(styleJson[last.p])
         # DOMAIN JsonStyleOfRepo(last.only, last.v)

(***************************************************************************)
(* C9.  Merging a new record into a well-formed persisted record: the      *)
(* persisted result has the new value for every key of the new record, the *)
(* old value for every key only the old record had, and no other key.      *)
(***************************************************************************)
MergedAsUpdate(old, new, result) ==
    /\ DOMAIN result = DOMAIN old \cup DOMAIN new
    /\ \A k \in DOMAIN new : result[k] = new[k]
    /\ \A k \in DOMAIN old \ DOMAIN new : result[k] = old[k]

Malformed(f) == f.exists /\ JsonLoad(f).exc = "JSONDecodeError"

Producers == { t \in DOMAIN task : task[t].pc = "returned" }

RowOf(t) == Cardinality({ u \in Producers : u <= t })

C11_HeaderIsUnionRowPerRecord ==
    (mode \in {"infer", "packaged_infer"} /\ csv.written) =>
        /\ csv.exc = "none"
        /\ csv.header = UNION { DOMAIN StyleOf(task[t]) : t \in Producers }
        /\ Len(csv.rows) = Cardinality(Producers)
        /\ \A t \in Producers :
              /\ DOMAIN csv.rows[RowOf(t)] = csv.header
              /\ \A k \in csv.header :
                    IF k \in DOMAIN StyleOf(task[t])
                    THEN csv.rows[RowOf(t)][k] = <<"text", StyleOf(task[t])[k]>>
                    ELSE /\ csv.rows[RowOf(t)][k] = <<"text", <<>>>>
                         /\ csv.rows[RowOf(t)][k] # <<"text", <<"0">>>>

\* Two projects produced records with different keys: one row has an empty
\* cell in a column the other row fills.
C11_Witness ==
    /\ mode = "packaged_infer"
    /\ csv.written
    /\ Len(csv.rows) = 2
    /\ \E k \in csv.header :
          /\ csv.rows[1][k] = <<"text", <<>>>>
          /\ csv.rows[2][k] # <<"text", <<>>>>

(***************************************************************************)
(* C12.  Update mode: every row of the stats CSV is re-visited at its      *)
(* recorded commit and the revised CSV has one row per input row, with the *)
(* recomputed values in the columns of the selected extractors and the     *)
(* prior value in every other column, for every input CSV and working      *)
(* tree, a recomputed key that is no column of the input included.         *)
(***************************************************************************)
RecomputedKeys(o, tree) ==
    UNION { Keys(i, tree) : i \in { j \in DOMAIN Methods : Selected(o, j) } }

C12_RevisedCsvRowPerInputRow ==
    (/\ mode = "update"
     /\ BatchEnded
     /\ \A t \in DOMAIN task : task[t].pc = "returned" /\ task[t].failAt = 0) =>
        /\ csv.written
        /\ csv.exc = "none"
        /\ Len(csv.rows) = Len(task)
        /\ \A t \in DOMAIN task :
              /\ task[t].tree = task[t].target
              /\ \A k \in stats :
                    csv.rows[t][k] =
                      IF k \in RecomputedKeys(only, task[t].target)
                      THEN <<"text", <<"run", task[t].target>>>>
                      ELSE <<"text", CsvLine(task[t].repo, task[t].target)[k]>>

(***************************************************************************)
(* C13.  is_github_project_url accepts a URL only if it is exactly         *)
(* https://github.com/<owner>/<name> with at most one trailing slash:      *)
(* owner and name are not empty and nothing follows.                       *)
(***************************************************************************)
\* url is https://github.com/<owner>/<name>(/)? and nothing else
ExactProjectUrl(url) ==
    LET r == Tail(url)
    IN  /\ url[1] = "https://github.com"
        /\ \E a \in 1..Len(r), b \in 1..Len(r) :
              /\ Len(r) \in { 2 + a + b, 3 + a + b }
              /\ r[1] = "/"
              /\ NoSlashIn(r, 2, 1 + a)
              /\ r[2 + a] = "/"
              /\ NoSlashIn(r, 3 + a, 2 + a + b)
              /\ Len(r) = 3 + a + b => r[3 + a + b] = "/"

C13_AcceptsOnlyExactProjectUrl ==
    (arg # <<>> /\ ret = <<TRUE>>) => ExactProjectUrl(arg[2])

(***************************************************************************)
(* C14.  pypi_url_to_github_url of pystyle/pystyle_crawl.py scans the raw  *)
(* text whenever the structured lookup fails, home_page missing or not a   *)
(* GitHub project URL alike; it then returns the shortest GitHub-shaped    *)
(* URL of the text, and no URL only when the text has none.                *)
(***************************************************************************)
GithubShaped(page) ==
    { FindGithub(ResponseText(page)[i]) : i \in DOMAIN ResponseText(page) }
      \ { <<>> }

C14_FallbackWheneverLookupFails ==
    (arg # <<>> /\ StructuredLookup(arg) # "home_page") =>
        /\ ret.exc = "none"
        /\ IF GithubShaped(arg) = {} THEN ret.value = <<>>
           ELSE /\ ret.value \in GithubShaped(arg)
                /\ \A u \in GithubShaped(arg) : Len(ret.value) <= Len(u)

(***************************************************************************)
(* C15.  infer_license tries LICENSE, LICENSE.txt, LICENCE, LICENCE.txt in *)
(* that order and returns the license of the first candidate whose         *)
(* identification succeeds: a candidate that is present but not identified *)
(* does not stop the search, and no candidate after the identified one is  *)
(* consulted.                                                              *)
(***************************************************************************)
Called == arg # <<>>

Identifiable(tree) == { i \in DOMAIN tree : tree[i] = "identified" }

FirstIdentifiable(tree) ==
    CHOOSE i \in Identifiable(tree) : \A j \in Identifiable(tree) : i <= j

C15_FirstIdentifiedInOrder ==
    /\ probable_license_files = <<"LICENSE", "LICENSE.txt", "LICENCE", "LICENCE.txt">>
    /\ (Called /\ Identifiable(arg.tree) # {}) =>
          LET first == FirstIdentifiable(arg.tree)
              name == <<"license of", probable_license_files[first]>>
          IN  /\ ret.exc = "none"
              /\ ret.value = IF arg.variant = "pystyle/update.py"
                             THEN <<"dict", "license", name>>
                             ELSE <<"str", name>>
              /\ ret.consulted = [i \in 1..first |-> i]

(***************************************************************************)
(* C16.  infer_license on a tree with none of the candidate files returns  *)
(* the empty result ("" in update.py, None in pystyle_update.py) and does  *)
(* not raise.                                                              *)
(***************************************************************************)
NoCandidate(tree) == \A i \in DOMAIN tree : tree[i] = "absent"

C16_NoCandidateEmptyResult ==
    (Called /\ NoCandidate(arg.tree)) =>
        /\ ret.exc = "none"
        /\ ret.value = IF arg.variant = "pystyle/update.py"
                       THEN <<"dict", "license", <<>>>>
                       ELSE <<"None">>

C16_Witness ==
    /\ Called
    /\ NoCandidate(arg.tree)
    /\ arg.variant = "pystyle/pystyle_update.py"
    /\ ret.value = <<"None">>
    /\ Len(ret.consulted) = 4

(***************************************************************************)
(* C17.  In infer_license a candidate that cannot be read, for whatever    *)
(* reason (absent, not decodable, a directory, permission denied, broken   *)
(* symlink), is skipped: infer_license never raises, and a later readable  *)
(* candidate is still identified.                                          *)
(***************************************************************************)
Unreadable ==
    { "absent", "undecodable", "directory", "denied", "broken_symlink" }

C17_UnreadableCandidateSkipped ==
    Called =>
        /\ ret.exc = "none"
        /\ \A i \in DOMAIN arg.tree :
              (/\ arg.tree[i] = "identified"
               /\ \A j \in 1..(i - 1) : arg.tree[j] \in Unreadable) =>
                  /\ i \in { ret.consulted[n] : n \in DOMAIN ret.consulted }
                  /\ ret.value # LicenseNotFound(arg.variant)

(***************************************************************************)
(* C18.  count_shebangs reports shebangs_pct = round(100 * shebang_count / *)
(* total_py_files), where shebang_count is the number of .py files whose   *)
(* first line starts with #!, and 0 when there is no .py file; for three   *)
(* .py files of which two start with #!/usr/bin/env python3 the key        *)
(* shebang:python3 has count 2.                                            *)
(***************************************************************************)
\* round(n / d) of Python 3, which rounds a half to the even neighbour
Round(n, d) ==
    LET q == n \div d
        r == n % d
    IN  IF 2 * r < d THEN q
        ELSE IF 2 * r > d THEN q + 1
        ELSE IF q % 2 = 0 THEN q ELSE q + 1

ShebangCount(tree) ==
    Cardinality({ i \in DOMAIN tree : tree[i] \in { "env python3", "python", "sh" } })

TwoOfThreePython3(tree) ==
    /\ Len(tree) = 3
    /\ Cardinality({ i \in DOMAIN tree : tree[i] = "env python3" }) = 2
    /\ Cardinality({ i \in DOMAIN tree : tree[i] = "plain" }) = 1

C18_PctIsRounded ==
    (Called /\ "path" \in DOMAIN arg) =>
        /\ ret["shebangs_pct"] =
              IF Len(arg.path) = 0 THEN 0
              ELSE Round(100 * ShebangCount(arg.path), Len(arg.path))
        /\ TwoOfThreePython3(arg.path) =>
              /\ "shebang:python3" \in DOMAIN ret
              /\ ret["shebang:python3"] = 2

(***************************************************************************)
(* C19.  infer_style_of_repo with a filter `only` runs exactly the         *)
(* extractors whose name contains `only` as a substring, and all of them   *)
(* when `only` is None; an extractor whose name does not contain the       *)
(* filter is not invoked and none of its keys is in the result.            *)
(***************************************************************************)
ExtractorsOf(variant) ==
    IF variant = "pystyle/update.py" THEN DOMAIN Methods ELSE PackagedMethods

NameContains(o, i) ==
    \E at \in 0..(Len(Methods[i].name) - Len(o)) :
        SubSeq(Methods[i].name, at + 1, at + Len(o)) = o

Matching(variant, o) ==
    { i \in ExtractorsOf(variant) : o = <<"None">> \/ NameContains(o, i) }

OnlyMatchingRun ==
    (Called /\ "only" \in DOMAIN arg /\ ret.exc = "none") =>
        /\ ret.invoked \subseteq Matching(arg.variant, arg.only)
        /\ \A i \in DOMAIN Methods \ Matching(arg.variant, arg.only) :
              Keys(i, arg.tree) \cap DOMAIN ret.value = {}

C19_ExactlyTheMatchingExtractorsRun ==
    /\ OnlyMatchingRun
    /\ (Called /\ "only" \in DOMAIN arg /\ ret.exc = "none") =>
          /\ ret.invoked = Matching(arg.variant, arg.only)
          /\ DOMAIN ret.value =
                UNION { Keys(i, arg.tree) : i \in Matching(arg.variant, arg.only) }

(***************************************************************************)
(* C20.  On entry random_commit checks out a commit of the ancestor set of *)
(* the HEAD recorded at entry (rev-list of that HEAD, HEAD included), any  *)
(* member of the set can be the one, and an empty ancestor list makes the  *)
(* entry fail without a checkout: an entry that does not check out a       *)
(* member of the set failed on a git command or on the empty list.         *)
(***************************************************************************)
EnteredRandomCommit(t) ==
    /\ task[t].cm = "random_commit"
    /\ task[t].pc # "start"

C20_EntryChecksOutAnAncestor ==
    \A t \in DOMAIN task :
        EnteredRandomCommit(t) =>
            \/ /\ task[t].as \in RevList(task[t].initial)
               /\ task[t].as # None
            \/ /\ task[t].as = None
               /\ task[t].exc \in { "CalledProcessError", "IndexError" }

(***************************************************************************)
(* C21.  When random_commit is entered on a clone left detached by an      *)
(* earlier run, fix_checkout re-attaches it to its branch before the       *)
(* initial commit is recorded, so the commit recorded (and restored at     *)
(* exit) is the tip of that branch; on a clone that is not detached        *)
(* fix_checkout changes nothing and entry goes on.  Only a failing git     *)
(* command keeps the entry from recording that commit.                     *)
(***************************************************************************)
GitCommandFailedOnEntry(t) ==
    /\ task[t].exc = "CalledProcessError"
    /\ task[t].as = None

C21_RecoveryThenEntry ==
    \A t \in DOMAIN task :
        (EnteredRandomCommit(t) /\ git # <<>>) =>
            \/ GitCommandFailedOnEntry(t)
            \/ /\ git.entry[t] \in { "master", "detached" }
               /\ task[t].initial = UpstreamTip
               /\ task[t].as \in RevList(UpstreamTip)

(***************************************************************************)
(* C24.  A scoped checkout restores the branch attachment and not only the *)
(* commit: a scope of random_commit or commit entered with HEAD on a       *)
(* branch and left with its checkout done leaves HEAD on that branch, so   *)
(* that the pull of git_clone_or_update after the analysis does not fail   *)
(* for want of a branch and fall into delete-and-reclone.                  *)
(***************************************************************************)
EnteredOnBranch(t) == git.entry[t] = "master"

AnalysisStartedOnBranch ==
    /\ git.first = "master"
    /\ \A t \in DOMAIN task : git.entry[t] \in { "master", "not entered" }

C24_BranchAttachmentRestored ==
    git # <<>> =>
        /\ \A t \in DOMAIN task :
              (EnteredOnBranch(t) /\ task[t].left = "restored") =>
                  git.exit[t] = "master"
        /\ AnalysisStartedOnBranch => git.pull # "not_on_branch"

(***************************************************************************)
(* C22.  detect_test_engine records the known tool name (nose, pytest,     *)
(* unittest) found in the greatest number of the listed metadata files     *)
(* present in the tree, and records the empty string exactly when no       *)
(* scanned file mentions a known tool name.                                *)
(***************************************************************************)
Present(tree) == { i \in DOMAIN tree : tree[i].is \notin {"absent", "broken_symlink"} }

MentionedIn(tree, engine) ==
    Cardinality({ i \in Present(tree) : engine \in tree[i].mentions })

SomeMention(tree) == \E i \in Present(tree) : tree[i].mentions # {}

MostMentioned(tree) ==
    { e \in {"nose", "pytest", "unittest"} :
        /\ MentionedIn(tree, e) > 0
        /\ \A f \in {"nose", "pytest", "unittest"} :
              MentionedIn(tree, f) <= MentionedIn(tree, e) }

C22_MostMentionedEngineRecorded ==
    (Called /\ "repo_path" \in DOMAIN arg) =>
        /\ ret.exc = "none"
        /\ SomeMention(arg.repo_path) => ret.value \in MostMentioned(arg.repo_path)
        /\ ret.value = "" <=> ~SomeMention(arg.repo_path)

AllReadable(tree) == \A i \in Present(tree) : tree[i].is = "text"

MostMentionedOnReadableTrees ==
    (Called /\ "repo_path" \in DOMAIN arg /\ AllReadable(arg.repo_path)) =>
        /\ ret.exc = "none"
        /\ SomeMention(arg.repo_path) => ret.value \in MostMentioned(arg.repo_path)
        /\ ret.value = "" <=> ~SomeMention(arg.repo_path)

(***************************************************************************)
(* C23.  In infer_style of pystyle_update.py a run with an extractor       *)
(* filter never creates a partial style file: a project without style.json *)
(* before the iteration has none after it, the keys of the non-selected    *)
(* extractors of an existing style.json are unchanged, and a style.json    *)
(* that lacks keys of some extractors after the iteration lacked them      *)
(* before it.                                                              *)
(***************************************************************************)
AllJsonKeys == { JsonMethods[i].name : i \in DOMAIN JsonMethods }

NonSelectedKeys(o) ==
    { k \in AllJsonKeys : ~(o = <<"None">> \/ IsSubstring(o, k)) }

FilteredIteration == last.only # <<"None">> /\ last.did \notin {"nothing"}

Partial(f) ==
    /\ f.exists
    /\ JsonLoad(f).py = "dict"
    /\ ~(AllJsonKeys \subseteq DOMAIN JsonRead(f))

NoFileStaysNoFile ==
    (FilteredIteration /\ ~last.before.exists) => ~styleJson[last.p].exists

NonSelectedKeysUnchanged ==
    (FilteredIteration /\ last.before.exists) =>
        \A k \in NonSelectedKeys(last.only) :
            /\ k \in DOMAIN JsonRead(styleJson[last.p])
                  <=> k \in DOMAIN JsonRead(last.before)
            /\ k \in DOMAIN JsonRead(last.before) =>
                  JsonRead(styleJson[last.p])[k] = JsonRead(last.before)[k]

Removes == call.pc \in {"rmtree", "cleanup"} /\ fs' # fs

LostClones == { d \in Dirs : fs[d] = "clone" /\ fs'[d] # "clone" }

C25_OnlyOwnLeafRemoved ==
    [][ /\ Removes => CallDir = ExpectedDir(call.store, call.url)
        /\ LostClones # {} =>
              /\ call.pc # "idle"
              /\ LostClones = { ExpectedDir(call.store, call.url) } ]_vars

====
